---- MODULE Spec2Model ----
(***************************************************************************)
(* Model of bright (src/main.rs, src/models.rs, src/cli.rs): one run of    *)
(* main(): token acquisition with the on-disk token cache, date batching,  *)
(* the entity / resource / batch fetch loop and the InfluxDB write.        *)
(*                                                                         *)
(* Time for the date range is counted in units of 1/DayLen day; the token  *)
(* clock is a std::time::Duration since the epoch, [secs, nanos].          *)
(***************************************************************************)
EXTENDS Integers, Sequences, FiniteSets, TLC

VARIABLES
    cli,            \* parsed command line (cli.rs:7-24), immutable
    now,            \* what SystemTime::now() reads (main.rs:173)
    cache_file,     \* content of the file at cli.token_cache_file
    cache_at_start, \* history: cache_file when the run started
    pc,             \* position of main() / terminal outcome
    error,          \* which `?` ended the run ("" while none did)
    token_result,   \* history: how get_api_token returned
    expiry_check,   \* history: what check_token_expiry returned
    api_token,      \* main.rs:30
    auth_calls,     \* POSTs sent to GLOWMARKT_AUTH_URI
    auth_resp,      \* what the auth endpoint answered (new_token)
    cache_reads,    \* File::open calls on the cache file
    cache_writes,   \* File::create calls on the cache file
    fs_fault,       \* history: which file-system call of the save failed
    start,          \* main.rs:36
    end,            \* main.rs:36
    batches,        \* main.rs:39
    entity_calls,   \* GETs sent to /virtualentity
    entities,       \* main.rs:40, each entity is its sequence of resource ids
    pos,            \* how many (resource, batch) pairs process_entities has done
    fetch_log,      \* history: every readings request with its response
    influx,         \* main.rs:213, the points collected so far
    sink_calls      \* the point lists handed to influx_client.query

vars == <<cli, now, cache_file, cache_at_start, pc, error, token_result,
          expiry_check, api_token, auth_calls, auth_resp, cache_reads,
          cache_writes, fs_fault, start, end, batches, entity_calls, entities,
          pos, fetch_log, influx, sink_calls>>

token_vars == <<cache_file, token_result, expiry_check, api_token, auth_calls,
                auth_resp, cache_reads, cache_writes, fs_fault>>

date_vars == <<start, end, batches>>

fetch_vars == <<entity_calls, entities, pos, fetch_log, influx, sink_calls>>

-----------------------------------------------------------------------------
(* Bounds of the model *)

\* units of date-range time per day
DayLen == 2
\* latest date-range instant of the batching specification
MaxT == 45
\* expiries are drawn within ExpSlack seconds of `now` and of `now + Margin`
ExpSlack == 2
\* epoch second of the token clock
BaseNow == 1000
\* lifetime the auth endpoint gives a fresh token
FreshLifetime == 3600
\* an f64 of a reading is counted in units of 1/F64Res
F64Res == 2
\* largest f64 of a reading, in those units
MaxF64 == 3
\* most rows of a reading given to to_influx on its own
MaxRows == 2

(* Program constants *)

\* main.rs:180  Ok(diff > 500)
Margin == 500
\* main.rs:75, 80, 81  chrono::Duration::days(10)
SpanDays == 10

TenDays == SpanDays * DayLen

NanosPerSec == 1000 * 1000 * 1000

-----------------------------------------------------------------------------
(* JSON objects: HashMap<String, serde_json::Value> reduced to the two keys *)
(* the program looks at.                                                    *)

Absent == "absent"          \* the key is not in the map
NonString == "non_string"   \* a value as_str() answers None for
CachedToken == "tok_cached"
FreshToken == "tok_fresh"

JsonMap(token, expKind, exp) ==
    [kind |-> "json", token |-> token, expKind |-> expKind, exp |-> exp]

\* a file that does not exist, one that is no JSON object, one truncated to
\* nothing
NoFile == [kind |-> "missing", token |-> Absent, expKind |-> "absent", exp |-> 0]
Garbage == [kind |-> "garbage", token |-> Absent, expKind |-> "absent", exp |-> 0]
Truncated == [kind |-> "empty", token |-> Absent, expKind |-> "absent", exp |-> 0]

\* .get("token").and_then(serde_json::Value::as_str).unwrap_or_default()
TokenStr(m) == IF m.token \in {Absent, NonString} THEN "" ELSE m.token

\* read_local_token: Ok(map) only for a file that exists and decodes as a JSON
\* object
read_local_token_lenient(file) ==
    IF file.kind = "missing" THEN [ok |-> FALSE, map |-> file]
    ELSE [ok |-> TRUE, map |-> JsonMap(file.token, file.expKind, file.exp)]
read_local_token(file) ==
    IF file.kind = "json" THEN [ok |-> TRUE, map |-> file]
    ELSE [ok |-> FALSE, map |-> file]

\* Duration - Duration: panics ("overflow when subtracting durations") when
\* the right side is the larger
DurationLess(a, b) == a.secs < b.secs \/ (a.secs = b.secs /\ a.nanos < b.nanos)
DurationSub(a, b) ==
    IF a.nanos >= b.nanos
    THEN [secs |-> a.secs - b.secs, nanos |-> a.nanos - b.nanos]
    ELSE [secs |-> a.secs - b.secs - 1, nanos |-> a.nanos + NanosPerSec - b.nanos]

\* check_token_expiry: "err" (no u64 under "exp"), "panic", "true" or "false"
check_token_expiry(auth_map, t) ==
    IF auth_map.expKind # "u64" THEN "err"
    ELSE LET exp_duration == [secs |-> auth_map.exp, nanos |-> 0]
         IN  IF DurationLess(exp_duration, t) THEN "panic"
             ELSE LET diff == DurationSub(exp_duration, t).secs
                  IN  IF diff > Margin THEN "true" ELSE "false"

-----------------------------------------------------------------------------
(* Inputs *)

None == [some |-> FALSE, v |-> 0]
Some(x) == [some |-> TRUE, v |-> x]
Opt(S) == {None} \cup {Some(x) : x \in S}

Clis(times) ==
    [start_date : Opt(times), end_date : Opt(times), token_cache_file : BOOLEAN]

Clocks == {[secs |-> BaseNow, nanos |-> n] : n \in {0, NanosPerSec \div 2}}

ExpChoices ==
    ((BaseNow - ExpSlack) .. (BaseNow + ExpSlack))
        \cup ((BaseNow + Margin - ExpSlack) .. (BaseNow + Margin + ExpSlack))

CacheFiles ==
    {NoFile, Garbage, Truncated}
        \cup {JsonMap(tok, "u64", e) :
                tok \in {CachedToken, Absent, NonString}, e \in ExpChoices}
        \cup {JsonMap(tok, k, 0) :
                tok \in {CachedToken, Absent, NonString}, k \in {"absent", "non_u64"}}

\* what the auth endpoint can answer: no answer, a body that is no JSON
\* object, or a JSON object; reqwest does not look at the status
AuthResponses ==
    {[kind |-> "transport_err", status |-> "none", token |-> Absent,
      expKind |-> "absent", exp |-> 0],
     [kind |-> "not_json", status |-> "non_success", token |-> Absent,
      expKind |-> "absent", exp |-> 0],
     [kind |-> "json", status |-> "non_success", token |-> Absent,
      expKind |-> "absent", exp |-> 0],
     [kind |-> "json", status |-> "success", token |-> Absent,
      expKind |-> "u64", exp |-> BaseNow + FreshLifetime],
     [kind |-> "json", status |-> "success", token |-> FreshToken,
      expKind |-> "absent", exp |-> 0],
     [kind |-> "json", status |-> "success", token |-> FreshToken,
      expKind |-> "u64", exp |-> BaseNow + FreshLifetime]}

NoResponse ==
    [kind |-> "none", status |-> "none", token |-> Absent, expKind |-> "absent",
     exp |-> 0]

InitWith(clis, files, clocks) ==
    /\ cli \in clis
    /\ now \in clocks
    /\ cache_file \in files
    /\ cache_at_start = cache_file
    /\ pc = "get_api_token"
    /\ error = ""
    /\ token_result = "pending"
    /\ expiry_check = "not_run"
    /\ api_token = ""
    /\ auth_calls = 0
    /\ auth_resp = NoResponse
    /\ cache_reads = 0
    /\ cache_writes = 0
    /\ fs_fault = "none"
    /\ start = 0
    /\ end = 0
    /\ batches = <<>>
    /\ entity_calls = 0
    /\ entities = <<>>
    /\ pos = 0
    /\ fetch_log = <<>>
    /\ influx = <<>>
    /\ sink_calls = <<>>

-----------------------------------------------------------------------------
(* Token acquisition: get_api_token, refresh_and_cache_token, get_auth,     *)
(* write_auth_to_file                                                       *)

Fail(why) == pc' = "failed" /\ error' = why

\* main.rs:100  if let Some(cache_file) = &cli.token_cache_file
has_cache_file_always(c) == TRUE
has_cache_file(c) == c.token_cache_file

\* main.rs:100-111, up to the first await
get_api_token ==
    /\ pc = "get_api_token"
    /\ UNCHANGED <<cli, now, cache_at_start, cache_file, auth_calls, auth_resp,
                   cache_writes, fs_fault>>
    /\ UNCHANGED date_vars
    /\ UNCHANGED fetch_vars
    /\ IF ~has_cache_file(cli)
       THEN /\ pc' = "get_auth"
            /\ UNCHANGED <<error, token_result, expiry_check, api_token, cache_reads>>
       ELSE /\ cache_reads' = cache_reads + 1
            /\ LET r == read_local_token(cache_file)
                   c == check_token_expiry(r.map, now)
               IN  IF ~r.ok
                   THEN /\ pc' = "get_auth"
                        /\ UNCHANGED <<error, token_result, expiry_check, api_token>>
                   ELSE /\ expiry_check' = c
                        /\ CASE c = "err" ->
                                  /\ Fail("Token does not contain an expiry")
                                  /\ token_result' = "err"
                                  /\ UNCHANGED api_token
                             [] c = "panic" ->
                                  /\ pc' = "panicked"
                                  /\ token_result' = "panic"
                                  /\ UNCHANGED <<error, api_token>>
                             [] c = "true" ->
                                  /\ pc' = "setup_headers"
                                  /\ token_result' = "ok"
                                  /\ api_token' = TokenStr(r.map)
                                  /\ UNCHANGED error
                             [] c = "false" ->
                                  /\ pc' = "get_auth"
                                  /\ UNCHANGED <<error, token_result, api_token>>

\* main.rs:183-199, and what its two callers do with the answer
\* (main.rs:112-117 without a cache file, main.rs:141-142 with one)
get_auth ==
    /\ pc = "get_auth"
    /\ auth_calls' = auth_calls + 1
    /\ UNCHANGED <<cli, now, cache_at_start, cache_file, expiry_check, cache_reads,
                   cache_writes, fs_fault>>
    /\ UNCHANGED date_vars
    /\ UNCHANGED fetch_vars
    /\ \E resp \in AuthResponses :
        /\ auth_resp' = resp
        /\ IF resp.kind # "json"
           THEN /\ Fail("auth request")
                /\ token_result' = "err"
                /\ UNCHANGED api_token
           ELSE IF has_cache_file(cli)
           THEN /\ pc' = "File_create"
                /\ UNCHANGED <<error, token_result, api_token>>
           ELSE /\ pc' = "setup_headers"
                /\ token_result' = "ok"
                /\ api_token' = TokenStr(resp)
                /\ UNCHANGED error

\* main.rs:160  File::create(token_path)?  (creates or truncates)
File_create ==
    /\ pc = "File_create"
    /\ cache_writes' = cache_writes + 1
    /\ UNCHANGED <<cli, now, cache_at_start, expiry_check, api_token, auth_calls,
                   auth_resp, cache_reads>>
    /\ UNCHANGED date_vars
    /\ UNCHANGED fetch_vars
    /\ \E ok \in BOOLEAN :
        IF ok
        THEN /\ cache_file' = Truncated
             /\ pc' = "write_all"
             /\ UNCHANGED <<error, token_result, fs_fault>>
        ELSE /\ fs_fault' = "create"
             /\ Fail("cache file create")
             /\ token_result' = "err"
             /\ UNCHANGED cache_file

\* write_all saving the token string alone, without the other keys
write_all_token_only ==
    /\ pc = "write_all"
    /\ UNCHANGED <<cli, now, cache_at_start, expiry_check, auth_calls, auth_resp,
                   cache_reads, cache_writes>>
    /\ UNCHANGED date_vars
    /\ UNCHANGED fetch_vars
    /\ \E ok \in BOOLEAN :
        IF ok
        THEN /\ cache_file' = JsonMap(auth_resp.token, "absent", 0)
             /\ pc' = "setup_headers"
             /\ token_result' = "ok"
             /\ api_token' = TokenStr(auth_resp)
             /\ UNCHANGED <<error, fs_fault>>
        ELSE /\ fs_fault' = "write_all"
             /\ Fail("cache file write")
             /\ token_result' = "err"
             /\ UNCHANGED <<cache_file, api_token>>

\* main.rs:161  file.write_all(token_bytes)?  and main.rs:144-148
write_all ==
    /\ pc = "write_all"
    /\ UNCHANGED <<cli, now, cache_at_start, expiry_check, auth_calls, auth_resp,
                   cache_reads, cache_writes>>
    /\ UNCHANGED date_vars
    /\ UNCHANGED fetch_vars
    /\ \E ok \in BOOLEAN :
        IF ok
        THEN /\ cache_file' = JsonMap(auth_resp.token, auth_resp.expKind, auth_resp.exp)
             /\ pc' = "setup_headers"
             /\ token_result' = "ok"
             /\ api_token' = TokenStr(auth_resp)
             /\ UNCHANGED <<error, fs_fault>>
        ELSE /\ fs_fault' = "write_all"
             /\ Fail("cache file write")
             /\ token_result' = "err"
             /\ UNCHANGED <<cache_file, api_token>>

-----------------------------------------------------------------------------
(* Date range and batches: get_date_range, create_date_batches, min_dates   *)

\* what Local::now() can read (main.rs:57): a midnight and a later time of day
Todays == (MaxT - DayLen + 1) .. MaxT

\* .with_time(chrono::NaiveTime::MIN): the start of the same day
with_time_MIN(t) == t - (t % DayLen)

\* main.rs:88-94
min_dates_first(d1, d2) == d1
min_dates(d1, d2) == IF d1 < d2 THEN d1 ELSE d2

\* the while loop going on while start_date + 10 days <= end
RECURSIVE batch_loop_inclusive(_, _, _, _)
batch_loop_inclusive(bs, start_date, end_date, e) ==
    IF start_date + TenDays <= e
    THEN LET sd == start_date + TenDays
             ed == min_dates(sd + TenDays, e)
         IN  batch_loop_inclusive(Append(bs, <<sd, ed>>), sd, ed, e)
    ELSE bs

\* main.rs:79-83, the while loop
RECURSIVE batch_loop(_, _, _, _)
batch_loop(bs, start_date, end_date, e) ==
    IF end_date < e
    THEN LET sd == start_date + TenDays
             ed == min_dates(sd + TenDays, e)
         IN  batch_loop(Append(bs, <<sd, ed>>), sd, ed, e)
    ELSE bs

\* main.rs:69-86
create_date_batches(s, e) ==
    LET end_date == min_dates(s + TenDays, e)
    IN  batch_loop(<<<<s, end_date>>>>, s, end_date, e)

\* main.rs:31  setup_headers(api_token)?  (every token string of the model
\* is a legal header value, the empty string included)
setup_headers ==
    /\ pc = "setup_headers"
    /\ pc' = "get_date_range"
    /\ UNCHANGED <<cli, now, cache_at_start, error>>
    /\ UNCHANGED token_vars
    /\ UNCHANGED date_vars
    /\ UNCHANGED fetch_vars

\* main.rs:51-67
get_date_range ==
    /\ pc = "get_date_range"
    /\ UNCHANGED <<cli, now, cache_at_start, batches>>
    /\ UNCHANGED token_vars
    /\ UNCHANGED fetch_vars
    /\ IF cli.start_date.some /\ cli.end_date.some
       THEN /\ start' = cli.start_date.v
            /\ end' = cli.end_date.v
            /\ pc' = "create_date_batches"
            /\ UNCHANGED error
       ELSE IF ~cli.start_date.some /\ ~cli.end_date.some
       THEN \E t \in Todays :
                /\ start' = with_time_MIN(t - TenDays)
                /\ end' = t
                /\ pc' = "create_date_batches"
                /\ UNCHANGED error
       ELSE /\ Fail("Either both dates must be provided, or neither.")
            /\ UNCHANGED <<start, end>>

\* main.rs:39
create_date_batches_call ==
    /\ pc = "create_date_batches"
    /\ batches' = create_date_batches(start, end)
    /\ pc' = "get_entities"
    /\ UNCHANGED <<cli, now, cache_at_start, error, start, end>>
    /\ UNCHANGED token_vars
    /\ UNCHANGED fetch_vars

-----------------------------------------------------------------------------
(* Entities, readings and the sink: get_entities, process_entities,         *)
(* get_readings_for_resource, Reading::to_influx, influx_client.query       *)

\* what GET /virtualentity can answer: a failure, or entities, each with its
\* resources
EntityListings ==
    {[ok |-> FALSE, list |-> <<>>]}
        \cup {[ok |-> TRUE, list |-> l] :
                l \in {<<>>, << <<>> >>, << <<"r1">> >>, << <<"r1", "r2">> >>,
                       << <<"r1">>, <<"r2">> >>}}

\* rows of a reading's data, each [timestamp, value], the timestamps whole
\* seconds
DataChoices ==
    {<<>>, << <<1 * F64Res, 3>> >>, << <<2 * F64Res, 4>>, <<3 * F64Res, 5>> >>}

\* what GET /resource/{id}/readings can answer: no answer, a body that does
\* not decode as a Reading, or a Reading
ReadingResponses ==
    {[ok |-> FALSE, why |-> w, classifier |-> "", data |-> <<>>] :
        w \in {"transport", "decode"}}
        \cup {[ok |-> TRUE, why |-> "", classifier |-> "electricity.consumption",
               data |-> d] : d \in DataChoices}

\* models.rs:73  v[0] as i64: the whole part of a non-negative f64
as_i64(x) == x \div F64Res

\* models.rs:73-74  v[0], v[1]: indexing a row of fewer than two numbers
\* panics
to_influx_panics(reading) ==
    \E i \in 1 .. Len(reading.data) : Len(reading.data[i]) < 2

\* models.rs:68-80, for a reading it does not panic on
to_influx_swapped(reading) ==
    [i \in 1 .. Len(reading.data) |->
        [time |-> as_i64(reading.data[i][2]), value |-> reading.data[i][1],
         classifier |-> reading.classifier, measurement |-> reading.classifier]]
to_influx(reading) ==
    [i \in 1 .. Len(reading.data) |->
        [time |-> as_i64(reading.data[i][1]), value |-> reading.data[i][2],
         classifier |-> reading.classifier, measurement |-> reading.classifier]]

\* from.format("%Y-%m-%dT%H:%M:%S"): the local wall-clock time, to the second,
\* without the offset; an instant of the model is a whole number of units
format_local(t) == t

\* the resources in the order of main.rs:215-217
RECURSIVE resources_of(_)
resources_of(es) ==
    IF es = <<>> THEN <<>> ELSE Head(es) \o resources_of(Tail(es))

\* the pairs with the batch loop outside the resource loop
pairs_of_batch_major(es, bs) ==
    LET rs == resources_of(es)
        n == Len(rs)
    IN  [i \in 1 .. (n * Len(bs)) |->
            [resource |-> rs[((i - 1) % n) + 1],
             from |-> format_local(bs[((i - 1) \div n) + 1][1]),
             to |-> format_local(bs[((i - 1) \div n) + 1][2])]]

\* the (resource, batch) pairs in the order of main.rs:215-218
pairs_of(es, bs) ==
    LET rs == resources_of(es)
        n == Len(bs)
    IN  [i \in 1 .. (Len(rs) * n) |->
            [resource |-> rs[((i - 1) \div n) + 1],
             from |-> format_local(bs[((i - 1) % n) + 1][1]),
             to |-> format_local(bs[((i - 1) % n) + 1][2])]]

\* main.rs:227-239: the Ok arm pushes the reading's points, the Err arm logs
\* and goes on to the next pair
match_readings_abort(resp, points) ==
    IF resp.ok
    THEN [abort |-> FALSE, influx |-> points \o to_influx(resp)]
    ELSE [abort |-> TRUE, influx |-> points]
match_readings(resp, points) ==
    IF resp.ok
    THEN [abort |-> FALSE, influx |-> points \o to_influx(resp)]
    ELSE [abort |-> FALSE, influx |-> points]

\* the step after the n-th pair with the sink written whatever was collected
after_pairs_always_write(n, total, points) ==
    IF n < total THEN "process_entities"
    ELSE "influx_query"

\* where main() goes once n of the pairs are done: main.rs:218, 244, 42
after_pairs(n, total, points) ==
    IF n < total THEN "process_entities"
    ELSE IF points # <<>> THEN "influx_query"
    ELSE "done"

\* get_entities with a failed listing answered by a new auth request
get_entities_reauth ==
    /\ pc = "get_entities"
    /\ entity_calls' = entity_calls + 1
    /\ UNCHANGED <<cli, now, cache_at_start, pos, fetch_log, influx, sink_calls>>
    /\ UNCHANGED token_vars
    /\ UNCHANGED date_vars
    /\ \E r \in EntityListings :
        IF r.ok
        THEN /\ entities' = r.list
             /\ pc' = after_pairs(0, Len(pairs_of(r.list, batches)), <<>>)
             /\ UNCHANGED error
        ELSE /\ pc' = "get_auth"
             /\ UNCHANGED <<entities, error>>

\* main.rs:201-206 and main.rs:40
get_entities ==
    /\ pc = "get_entities"
    /\ entity_calls' = entity_calls + 1
    /\ UNCHANGED <<cli, now, cache_at_start, pos, fetch_log, influx, sink_calls>>
    /\ UNCHANGED token_vars
    /\ UNCHANGED date_vars
    /\ \E r \in EntityListings :
        IF r.ok
        THEN /\ entities' = r.list
             /\ pc' = after_pairs(0, Len(pairs_of(r.list, batches)), <<>>)
             /\ UNCHANGED error
        ELSE /\ Fail("entity listing")
             /\ UNCHANGED entities

\* main.rs:218-240, one (resource, batch) pair
get_readings_for_resource ==
    /\ pc = "process_entities"
    /\ pos < Len(pairs_of(entities, batches))
    /\ UNCHANGED <<cli, now, cache_at_start, entity_calls, entities, sink_calls>>
    /\ UNCHANGED token_vars
    /\ UNCHANGED date_vars
    /\ \E resp \in ReadingResponses :
        LET pairs == pairs_of(entities, batches)
            query == pairs[pos + 1]
            m == match_readings(resp, influx)
        IN  /\ fetch_log' = Append(fetch_log,
                    [resource |-> query.resource, from |-> query.from,
                     to |-> query.to, resp |-> resp])
            /\ pos' = pos + 1
            /\ IF resp.ok /\ to_influx_panics(resp)
               THEN /\ pc' = "panicked"
                    /\ UNCHANGED <<influx, error>>
               ELSE /\ influx' = m.influx
                    /\ IF m.abort
                       THEN Fail("readings fetch")
                       ELSE /\ pc' = after_pairs(pos + 1, Len(pairs), m.influx)
                            /\ UNCHANGED error

\* main.rs:42-46
influx_query ==
    /\ pc = "influx_query"
    /\ sink_calls' = Append(sink_calls, influx)
    /\ UNCHANGED <<cli, now, cache_at_start, entity_calls, entities, pos, fetch_log,
                   influx>>
    /\ UNCHANGED token_vars
    /\ UNCHANGED date_vars
    /\ \E ok \in BOOLEAN :
        IF ok THEN pc' = "done" /\ UNCHANGED error
        ELSE Fail("influx write")

-----------------------------------------------------------------------------
(* Specifications *)

\* instants of the command line in a whole run: one batch, exactly ten days,
\* more than ten days, and the ranges that are no range
RunTimes == {0, 1, TenDays + 1}

RunCacheFiles ==
    {NoFile, JsonMap(CachedToken, "u64", BaseNow + Margin + ExpSlack)}

\* a whole run of main()
Init == InitWith(Clis(RunTimes), RunCacheFiles, {[secs |-> BaseNow, nanos |-> 0]})

Next ==
    \/ get_api_token
    \/ get_auth
    \/ File_create
    \/ write_all
    \/ setup_headers
    \/ get_date_range
    \/ create_date_batches_call
    \/ get_entities
    \/ get_readings_for_resource
    \/ influx_query

Spec == Init /\ [][Next]_vars

\* get_api_token alone, over every cache file and clock
InitToken == InitWith(Clis({}), CacheFiles, Clocks)

NextToken == get_api_token \/ get_auth \/ File_create \/ write_all

SpecToken == InitToken /\ [][NextToken]_vars

\* main() without a cache file up to the batches, over every date range
InitBatch ==
    InitWith({c \in Clis(0 .. MaxT) : ~c.token_cache_file}, {NoFile},
             {[secs |-> BaseNow, nanos |-> 0]})

NextBatch ==
    \/ get_api_token
    \/ get_auth
    \/ setup_headers
    \/ get_date_range
    \/ create_date_batches_call

SpecBatch == InitBatch /\ [][NextBatch]_vars

\* the process is killed inside write_auth_to_file (main.rs:159-163): before
\* File::create the file is as it was; after it the file is empty, or holds
\* the part of the bytes already written, or all of them
crash ==
    /\ pc \in {"File_create", "write_all"}
    /\ pc' = "crashed"
    /\ UNCHANGED <<cli, now, cache_at_start, error, token_result, expiry_check,
                   api_token, auth_calls, auth_resp, cache_reads, cache_writes,
                   fs_fault>>
    /\ UNCHANGED date_vars
    /\ UNCHANGED fetch_vars
    /\ IF pc = "File_create"
       THEN UNCHANGED cache_file
       ELSE cache_file' \in
                {Truncated, Garbage,
                 JsonMap(auth_resp.token, auth_resp.expKind, auth_resp.exp)}

\* get_api_token on a machine where the process can be killed during the save
NextCrash == NextToken \/ crash

SpecCrash == InitToken /\ [][NextCrash]_vars

\* Reading::to_influx on its own, over readings of every shape Vec<Vec<f64>>
\* decodes to: rows of no, one, two or three numbers
Rows ==
    {<<>>, <<0>>, <<1, 3, 4>>} \cup {<<t, v>> : t \in 0 .. MaxF64, v \in {3, 4}}

RECURSIVE SeqsUpTo(_, _)
SeqsUpTo(S, n) ==
    IF n = 0 THEN {<<>>}
    ELSE LET shorter == SeqsUpTo(S, n - 1)
         IN  shorter \cup {Append(q, x) : q \in shorter, x \in S}

Readings ==
    {[ok |-> TRUE, why |-> "", classifier |-> c, data |-> d] :
        c \in {"electricity.consumption", "gas.consumption"},
        d \in SeqsUpTo(Rows, MaxRows)}

\* the state of a run that has just decoded one reading (main.rs:227-228)
InitInflux ==
    /\ cli = [start_date |-> Some(0), end_date |-> Some(1),
              token_cache_file |-> FALSE]
    /\ now = [secs |-> BaseNow, nanos |-> 0]
    /\ cache_file = NoFile
    /\ cache_at_start = NoFile
    /\ pc = "to_influx"
    /\ error = ""
    /\ token_result = "ok"
    /\ expiry_check = "not_run"
    /\ api_token = FreshToken
    /\ auth_calls = 1
    /\ auth_resp \in {r \in AuthResponses : r.token = FreshToken /\ r.expKind = "u64"}
    /\ cache_reads = 0
    /\ cache_writes = 0
    /\ fs_fault = "none"
    /\ start = 0
    /\ end = 1
    /\ batches = << <<0, 1>> >>
    /\ entity_calls = 1
    /\ entities = << <<"r1">> >>
    /\ pos = 1
    /\ \E reading \in Readings :
        fetch_log = <<[resource |-> "r1", from |-> format_local(0),
                       to |-> format_local(1), resp |-> reading]>>
    /\ influx = <<>>
    /\ sink_calls = <<>>

\* main.rs:229-231 with models.rs:68-80: the points of the decoded reading
to_influx_call ==
    /\ pc = "to_influx"
    /\ UNCHANGED <<cli, now, cache_at_start, error, entity_calls, entities, pos,
                   fetch_log, sink_calls>>
    /\ UNCHANGED token_vars
    /\ UNCHANGED date_vars
    /\ IF to_influx_panics(fetch_log[1].resp)
       THEN pc' = "panicked" /\ UNCHANGED influx
       ELSE pc' = "done" /\ influx' = influx \o to_influx(fetch_log[1].resp)

NextInflux == to_influx_call

SpecInflux == InitInflux /\ [][NextInflux]_vars

-----------------------------------------------------------------------------
(* Properties *)

\* the cache file the run started with decodes as a JSON object
CacheLoads == cli.token_cache_file /\ cache_at_start.kind = "json"

\* the token string of the cache file the run started with is a string
CacheHasToken == cache_at_start.token \notin {Absent, NonString}

\* expiry - now > 500 for the cached expiry: `now` is secs + nanos / 10^9 with
\* nanos < 10^9 and the expiry a whole second, so this is exp - secs > 500
CacheExpiryBeyondMargin ==
    /\ cache_at_start.expKind = "u64"
    /\ cache_at_start.exp - now.secs > Margin

\* the token string the auth endpoint answered with
FreshOf(resp) == IF resp.token = FreshToken THEN FreshToken ELSE ""

\* the live auth request was answered with a JSON object, the save met no
\* file-system failure, and get_api_token has returned
RefreshWentThrough ==
    token_result # "pending" /\ auth_resp.kind = "json" /\ fs_fault = "none"

\* get_api_token returned the fresh token after saving the auth result
RefreshedAndSaved ==
    /\ token_result = "ok"
    /\ api_token = FreshOf(auth_resp)
    /\ cache_writes = 1
    /\ cache_file = JsonMap(auth_resp.token, auth_resp.expKind, auth_resp.exp)

\* C1: for start < end the batches are non-empty, start at start, end at end,
\* each has start < end and spans at most ten days, and each begins where the
\* previous one ended (so they ascend and do not overlap).
C1_BatchesCoverRange ==
    (pc = "get_entities" /\ start < end) =>
        /\ Len(batches) >= 1
        /\ batches[1][1] = start
        /\ batches[Len(batches)][2] = end
        /\ \A i \in 1 .. Len(batches) :
            /\ batches[i][1] < batches[i][2]
            /\ batches[i][2] - batches[i][1] <= SpanDays * DayLen
        /\ \A i \in 1 .. (Len(batches) - 1) :
            /\ batches[i + 1][1] = batches[i][2]
            /\ batches[i][1] < batches[i + 1][1]

\* C1 witness: a range of more than twenty days, cut into three batches of
\* which the last is shorter than ten days
C1_Witness ==
    /\ pc = "get_entities"
    /\ start < end
    /\ Len(batches) = 3
    /\ batches[3][2] - batches[3][1] < SpanDays * DayLen
    /\ batches[3][2] = end

\* C2: with a cache file holding a token whose expiry is more than 500 s
\* after now, get_api_token returns the cached token string and sends no auth
\* request.
C2_ValidCacheIsReused ==
    (CacheLoads /\ CacheHasToken /\ CacheExpiryBeyondMargin) =>
        /\ auth_calls = 0
        /\ token_result # "pending" =>
            (token_result = "ok" /\ api_token = cache_at_start.token)

\* C3: for every expiry and every current time the expiry check answers true
\* exactly when expiry - now > 500, false otherwise, and never crashes.
C3_ExpiryCheckIsThreshold ==
    (expiry_check # "not_run" /\ cache_at_start.expKind = "u64") =>
        expiry_check =
            (IF cache_at_start.exp - now.secs > Margin THEN "true" ELSE "false")

\* C4: with a cache location whose file is missing or does not decode, exactly
\* one auth request is sent, and when it is answered and the file system takes
\* the save, the answer is what the cache file holds and its token is returned.
C4_CacheMissRefreshes ==
    (cli.token_cache_file /\ cache_at_start.kind # "json") =>
        /\ auth_calls <= 1
        /\ expiry_check = "not_run"
        /\ token_result # "pending" => auth_calls = 1
        /\ RefreshWentThrough => RefreshedAndSaved

\* C4 witness: a cache file that is no JSON object, replaced by the fresh
\* token the one auth request brought
C4_Witness ==
    /\ cli.token_cache_file
    /\ cache_at_start.kind = "garbage"
    /\ token_result = "ok"
    /\ api_token = FreshToken
    /\ auth_calls = 1
    /\ cache_file.kind = "json"
    /\ cache_file.token = FreshToken

\* C5: with a cached token that loads but whose expiry is at most 500 s after
\* now (already expired included), an auth request is sent, the new token is
\* saved and returned, never the cached one.
C5_StaleCacheIsRefreshed ==
    (CacheLoads /\ cache_at_start.expKind = "u64"
        /\ cache_at_start.exp - now.secs <= Margin
        /\ token_result # "pending") =>
        /\ auth_calls = 1
        /\ RefreshWentThrough => RefreshedAndSaved

\* C6: with a cache file that is a JSON object without a numeric expiry, the
\* missing expiry triggers a refresh: an auth request is sent and the fresh
\* token returned, the run does not fail on it.
C6_MissingExpiryRefreshes ==
    (CacheLoads /\ cache_at_start.expKind # "u64" /\ token_result # "pending") =>
        /\ auth_calls = 1
        /\ RefreshWentThrough => RefreshedAndSaved

\* C7: with a cache file that is a JSON object with an expiry beyond the margin
\* but without a token string, the load is a cache miss: an auth request is
\* sent and nothing taken from that file is returned.
C7_MissingTokenIsCacheMiss ==
    (CacheLoads /\ ~CacheHasToken /\ CacheExpiryBeyondMargin
        /\ token_result # "pending") =>
        /\ auth_calls = 1
        /\ RefreshWentThrough => RefreshedAndSaved

\* the auth request failed: no answer, a non-success status, or an answer
\* without the token string or without the expiry
AuthFailure(resp) ==
    \/ resp.kind \in {"transport_err", "not_json"}
    \/ resp.status = "non_success"
    \/ resp.token \in {Absent, NonString}
    \/ resp.expKind # "u64"

\* C8: when the auth request fails the run aborts: no entity listing, no
\* readings fetch, no cache write and no sink write follow, and the auth
\* endpoint is not called again.
C8_AuthFailureAborts ==
    (auth_calls > 0 /\ AuthFailure(auth_resp)) =>
        /\ pc = "failed"
        /\ auth_calls = 1
        /\ cache_writes = 0
        /\ entity_calls = 0
        /\ fetch_log = <<>>
        /\ sink_calls = <<>>

\* the points of the successful fetches of a log, in its order
RECURSIVE points_of(_)
points_of(log) ==
    IF log = <<>> THEN <<>>
    ELSE (IF Head(log).resp.ok THEN to_influx(Head(log).resp) ELSE <<>>)
            \o points_of(Tail(log))

\* process_entities has returned
FetchingOver ==
    pc \in {"influx_query", "done"} \/ (pc = "failed" /\ error = "influx write")

C10_CacheWriteFailureNonFatal ==
    fs_fault # "none" =>
        /\ token_result = "ok"
        /\ api_token = FreshOf(auth_resp)
        /\ pc # "failed"

\* the command line names exactly one of the two dates, or a start that is
\* not before the end
InvalidArguments ==
    \/ cli.start_date.some # cli.end_date.some
    \/ /\ cli.start_date.some
       /\ cli.end_date.some
       /\ cli.start_date.v >= cli.end_date.v

\* C11: with exactly one date given, or start >= end, the run fails before
\* any network activity: no auth request, entity listing or readings fetch is
\* ever issued.
C11_InvalidArgumentsBeforeNetwork ==
    InvalidArguments =>
        /\ auth_calls = 0
        /\ entity_calls = 0
        /\ fetch_log = <<>>
        /\ pc \notin {"create_date_batches", "get_entities", "process_entities",
                      "influx_query", "done"}

\* C12: for start >= end create_date_batches fails and emits no batch, so no
\* readings fetch is issued for a window with from >= to.
C12_InvalidRangeRejected ==
    (cli.start_date.some /\ cli.end_date.some
        /\ cli.start_date.v >= cli.end_date.v) =>
        /\ batches = <<>>
        /\ pc \notin {"get_entities", "process_entities", "influx_query", "done"}
        /\ \A i \in 1 .. Len(fetch_log) : fetch_log[i].from < fetch_log[i].to

\* C13: without a cache location get_api_token sends exactly one auth request
\* and the cache file is never opened, created or changed.
C13_NoCacheNoFileAccess ==
    ~cli.token_cache_file =>
        /\ cache_reads = 0
        /\ cache_writes = 0
        /\ cache_file = cache_at_start
        /\ auth_calls <= 1
        /\ token_result # "pending" => auth_calls = 1

\* C13 witness: a finished run without a cache location, on a machine where a
\* usable cached token lies on disk, that authenticated once and left the
\* file alone
C13_Witness ==
    /\ ~cli.token_cache_file
    /\ pc = "done"
    /\ cache_at_start.kind = "json"
    /\ cache_file = cache_at_start
    /\ auth_calls = 1
    /\ api_token = FreshToken
    /\ cache_reads = 0
    /\ cache_writes = 0

\* C14: every step that issues or follows the entity listing or a readings
\* fetch starts with token acquisition completed, and sends no auth request
\* and touches neither the cache file nor the token.
C14_TokenBeforeFetch ==
    [][(entity_calls' > 0 \/ fetch_log' # <<>>) =>
        /\ token_result = "ok"
        /\ token_result' = "ok"
        /\ auth_calls' = auth_calls
        /\ cache_reads' = cache_reads
        /\ cache_writes' = cache_writes
        /\ cache_file' = cache_file
        /\ api_token' = api_token]_vars

\* C14 witness: a finished run that refreshed and saved the token and then
\* fetched readings
C14_Witness ==
    /\ pc = "done"
    /\ auth_calls = 1
    /\ cache_writes = 1
    /\ cache_file.kind = "json"
    /\ entity_calls = 1
    /\ Len(fetch_log) >= 2

\* C15: for start < end with end - start at most ten days, ten days exactly
\* included, create_date_batches returns the one batch (start, end).
C15_ShortRangeIsOneBatch ==
    (pc = "get_entities" /\ start < end /\ end - start <= SpanDays * DayLen) =>
        batches = << <<start, end>> >>

\* C15 witness: a range of exactly ten days, returned as one batch
C15_Witness ==
    /\ pc = "get_entities"
    /\ start < end
    /\ end - start = SpanDays * DayLen
    /\ batches = << <<start, end>> >>

\* every row of the reading given to to_influx holds a timestamp and a value
RowsWellFormed ==
    \A i \in 1 .. Len(fetch_log[1].resp.data) : Len(fetch_log[1].resp.data[i]) >= 2

\* C16: to_influx maps the rows of a reading one-to-one and in order to
\* points: as many points as rows (none for no rows, without error), the i-th
\* with the i-th row's timestamp as whole epoch seconds and its value, and
\* with classifier and measurement equal to the reading's classifier.
C16_ToInfluxOneToOne ==
    (pc \in {"done", "panicked"} /\ RowsWellFormed) =>
        LET reading == fetch_log[1].resp
        IN  /\ pc = "done"
            /\ Len(influx) = Len(reading.data)
            /\ \A i \in 1 .. Len(reading.data) :
                /\ influx[i].time * F64Res <= reading.data[i][1]
                /\ reading.data[i][1] < (influx[i].time + 1) * F64Res
                /\ influx[i].value = reading.data[i][2]
                /\ influx[i].classifier = reading.classifier
                /\ influx[i].measurement = reading.classifier

\* C16 witness: a reading of two rows with different timestamps and values,
\* turned into two points in the rows' order
C16_Witness ==
    /\ pc = "done"
    /\ Len(fetch_log[1].resp.data) = 2
    /\ Len(influx) = 2
    /\ fetch_log[1].resp.classifier = "gas.consumption"
    /\ influx[1].time < influx[2].time
    /\ influx[1].value > influx[2].value
    /\ influx[1].measurement = "gas.consumption"

\* C17: if the process crashes at any point during write_auth_to_file, the
\* cache file a later run finds is either the complete previous content or
\* the complete new content, never an empty or partial file.
C17_SaveIsCrashAtomic ==
    pc = "crashed" =>
        \/ cache_file = cache_at_start
        \/ cache_file = JsonMap(auth_resp.token, auth_resp.expKind, auth_resp.exp)

\* clocks of a later run, while the fresh token is still valid
LaterClocks ==
    {[secs |-> BaseNow + d, nanos |-> n] :
        d \in 0 .. ExpSlack, n \in {0, NanosPerSec \div 2}}

Places ==
    {p \in (1 .. Len(entities)) \X (1 .. 2) \X (1 .. Len(batches)) :
        p[2] <= Len(entities[p[1]])}

\* the i-th fetch asked for the resource and the window of place p
FetchIsFor(i, p) ==
    /\ fetch_log[i].resource = entities[p[1]][p[2]]
    /\ fetch_log[i].from = batches[p[3]][1]
    /\ fetch_log[i].to = batches[p[3]][2]

\* place p comes before place q: entity, then resource, then batch
PlaceBefore(p, q) ==
    \/ p[1] < q[1]
    \/ p[1] = q[1] /\ p[2] < q[2]
    \/ p[1] = q[1] /\ p[2] = q[2] /\ p[3] < q[3]

\* C19: process_entities fetches each (resource, batch) pair exactly once, in
\* the order entity, resource, batch with the batches ascending, and its
\* points are the points of the successful fetches in that order, none lost,
\* none twice, none from a failed fetch.
C19_OneFetchPerPairInOrder ==
    (entity_calls = 1 /\ error # "entity listing") =>
        /\ Len(fetch_log) = pos
        /\ \A i \in 1 .. Len(fetch_log) : \E p \in Places : FetchIsFor(i, p)
        /\ \A i, j \in 1 .. Len(fetch_log) :
            i < j => \A p, q \in Places :
                (FetchIsFor(i, p) /\ FetchIsFor(j, q)) => PlaceBefore(p, q)
        /\ \A b \in 1 .. (Len(batches) - 1) : batches[b][1] < batches[b + 1][1]
        /\ influx = points_of(fetch_log)
        /\ Len(influx) <= Len(fetch_log) * 2
        /\ FetchingOver =>
            /\ \A p \in Places : \E i \in 1 .. Len(fetch_log) : FetchIsFor(i, p)
            /\ Len(fetch_log) = Cardinality(Places)

\* C19 witness: a finished run over two entities and two batches: four
\* fetches, the second failed, the others with points
C19_Witness ==
    /\ pc = "done"
    /\ Len(entities) = 2
    /\ Len(batches) = 2
    /\ Len(fetch_log) = 4
    /\ ~fetch_log[2].resp.ok
    /\ Len(fetch_log[1].resp.data) = 1
    /\ Len(fetch_log[3].resp.data) = 2
    /\ Len(fetch_log[4].resp.data) = 1
    /\ Len(influx) = 4
    /\ fetch_log[1].resource = fetch_log[2].resource
    /\ fetch_log[3].resource # fetch_log[1].resource

\* every (resource, batch) pair of the run has been fetched
AllFetched ==
    entity_calls = 1 /\ error # "entity listing"
        /\ Len(fetch_log) = Cardinality(Places)

\* C20: the sink is written at most once, only after the last fetch and only
\* with at least one point; a failed entity listing ends the run with no fetch
\* and no sink write; a run whose fetches all failed, or that had no resource
\* to fetch, writes nothing to the sink and ends successfully.
C20_SinkWrittenOnceAtEnd ==
    /\ Len(sink_calls) <= 1
    /\ sink_calls # <<>> =>
        /\ AllFetched
        /\ pc \in {"done", "failed"}
        /\ sink_calls[1] = influx
        /\ influx # <<>>
        /\ \E i \in 1 .. Len(fetch_log) :
            fetch_log[i].resp.ok /\ fetch_log[i].resp.data # <<>>
    /\ pc = "influx_query" => AllFetched /\ influx # <<>> /\ sink_calls = <<>>
    /\ error = "entity listing" =>
        pc = "failed" /\ fetch_log = <<>> /\ sink_calls = <<>>
    /\ (AllFetched /\ \A i \in 1 .. Len(fetch_log) : ~fetch_log[i].resp.ok) =>
        pc = "done" /\ error = "" /\ sink_calls = <<>>

\* C20 witness: a run of four fetches that all failed has ended successfully
\* with nothing written to the sink
C20_Witness ==
    /\ pc = "done"
    /\ error = ""
    /\ Len(fetch_log) = 4
    /\ \A i \in 1 .. 4 : ~fetch_log[i].resp.ok
    /\ sink_calls = <<>>

====
